---- MODULE Spec2Model ----
(***************************************************************************)
(* A model of CodeAnalyzer (src/code_analyzer.py): one analyze() call, the *)
(* child processes it runs, the temporary file it owns, and the three      *)
(* output normalizers and the JavaScript heuristic fallback.               *)
(*                                                                         *)
(* Text is modelled as a sequence of one-character strings, so that the    *)
(* string operations of the code (strip, split, startswith, re.search)     *)
(* are computed character by character.                                    *)
(***************************************************************************)
EXTENDS Integers, Sequences, FiniteSets, TLC

\* ------------------------------------------------------------------ bounds

\* Largest number of records in a pylint / eslint output array (Spec).
MaxIssues == 2
\* Largest number of lines in a flake8 output (Spec).
MaxFlakeLines == 1
\* Largest number of records in a pylint output array (SpecPylint).
MaxRecords == 3
\* Largest number of lines in a flake8 output (SpecFlake8).
MaxOutLines == 3
\* Longest generated line over the equality alphabet (SpecHeuristic).
MaxLineLen == 4

\* ------------------------------------------------------- text primitives

Whitespace == {" ", "\n", "\t"}

Digits == <<"0", "1", "2", "3", "4", "5", "6", "7", "8", "9">>

WordChars ==
    {"a", "b", "c", "d", "e", "f", "g", "h", "i", "j", "k", "l", "m", "n", "o",
     "p", "q", "r", "s", "t", "u", "v", "w", "x", "y", "z", "_",
     "A", "C", "E", "F", "H", "I", "J", "N", "O", "P", "R", "S", "T", "V", "W",
     "Y"} \cup {Digits[i] : i \in 1..10}

\* s[i..j] (1-based, inclusive), empty when j < i.
Slice(s, i, j) == [k \in 1..(j - i + 1) |-> s[i + k - 1]]

\* s.startswith(p)
StartsWith(s, p) == Len(s) >= Len(p) /\ Slice(s, 1, Len(p)) = p

\* s.endswith(p)
EndsWith(s, p) == Len(s) >= Len(p) /\ Slice(s, Len(s) - Len(p) + 1, Len(s)) = p

\* p occurs in s starting at position i
MatchAt(s, p, i) == i + Len(p) - 1 <= Len(s) /\ Slice(s, i, i + Len(p) - 1) = p

\* str.lstrip() / str.rstrip() / str.strip()
RECURSIVE LStrip(_)
LStrip(s) == IF s # <<>> /\ Head(s) \in Whitespace THEN LStrip(Tail(s)) ELSE s

RECURSIVE RStrip(_)
RStrip(s) ==
    IF s # <<>> /\ s[Len(s)] \in Whitespace THEN RStrip(Slice(s, 1, Len(s) - 1)) ELSE s

Strip(s) == RStrip(LStrip(s))

\* index of the first occurrence of character c in s, 0 when there is none
FindChar(s, c) ==
    IF \E i \in 1..Len(s) : s[i] = c
    THEN CHOOSE i \in 1..Len(s) : s[i] = c /\ \A j \in 1..(i - 1) : s[j] # c
    ELSE 0

\* s.split(sep, maxsplit) for a one-character sep; maxsplit < 0 is unlimited
RECURSIVE Split(_, _, _)
Split(s, sep, maxsplit) ==
    LET i == FindChar(s, sep) IN
    IF maxsplit = 0 \/ i = 0
    THEN <<s>>
    ELSE <<Slice(s, 1, i - 1)>> \o Split(Slice(s, i + 1, Len(s)), sep, maxsplit - 1)

\* sep.join(parts)
RECURSIVE Join(_, _)
Join(parts, sep) ==
    IF parts = <<>> THEN <<>>
    ELSE IF Len(parts) = 1 THEN parts[1]
    ELSE parts[1] \o <<sep>> \o Join(Tail(parts), sep)

\* str.lower() on the characters of the model's alphabet
UpperToLower ==
    [c \in {"A", "C", "H", "I", "J", "N", "O", "P", "R", "S", "T", "V", "Y"} |->
        CASE c = "A" -> "a" [] c = "C" -> "c" [] c = "H" -> "h" [] c = "I" -> "i"
          [] c = "J" -> "j" [] c = "N" -> "n" [] c = "O" -> "o" [] c = "P" -> "p"
          [] c = "R" -> "r" [] c = "S" -> "s" [] c = "T" -> "t" [] c = "V" -> "v"
          [] c = "Y" -> "y"]

Lower(s) == [i \in 1..Len(s) |-> IF s[i] \in DOMAIN UpperToLower THEN UpperToLower[s[i]] ELSE s[i]]

\* int(s): [ok |-> FALSE] is ValueError
DigitValue(c) == (CHOOSE i \in 1..10 : Digits[i] = c) - 1

IsDigit(c) == \E i \in 1..10 : Digits[i] = c

RECURSIVE DigitsValue(_)
DigitsValue(s) ==
    IF s = <<>> THEN 0 ELSE 10 * DigitsValue(Slice(s, 1, Len(s) - 1)) + DigitValue(s[Len(s)])

ParseInt(s) ==
    LET t == Strip(s)
        neg == t # <<>> /\ Head(t) = "-"
        u == IF t # <<>> /\ Head(t) \in {"-", "+"} THEN Tail(t) ELSE t
    IN  IF u # <<>> /\ \A i \in 1..Len(u) : IsDigit(u[i])
        THEN [ok |-> TRUE, value |-> IF neg THEN 0 - DigitsValue(u) ELSE DigitsValue(u)]
        ELSE [ok |-> FALSE, value |-> 0]

\* -------------------------------------------------------- Python values

\* A Python value as json.loads and the normalizers produce it: None, a
\* number, a str (its characters), a list (elems) or a dict (members, a
\* function from keys to values).
PyNone == [t |-> "null", n |-> 0, s |-> <<>>, elems |-> <<>>, members |-> <<>>]

PyInt(k) == [t |-> "number", n |-> k, s |-> <<>>, elems |-> <<>>, members |-> <<>>]

PyStr(cs) == [t |-> "string", n |-> 0, s |-> cs, elems |-> <<>>, members |-> <<>>]

PyList(es) == [t |-> "array", n |-> 0, s |-> <<>>, elems |-> es, members |-> <<>>]

PyDict(ms) == [t |-> "object", n |-> 0, s |-> <<>>, elems |-> <<>>, members |-> ms]

\* dict.get(key, default)
Get(d, key, default) == IF key \in DOMAIN d.members THEN d.members[key] ELSE default

\* What a for loop over v visits: the elements of a list, the characters of
\* a str, the keys of a dict (each a str); anything else raises TypeError.
Iterate(v) ==
    CASE v.t = "array" -> [ok |-> TRUE, seq |-> v.elems]
      [] v.t = "string" -> [ok |-> TRUE, seq |-> [i \in 1..Len(v.s) |-> PyStr(<<v.s[i]>>)]]
      [] v.t = "object" ->
            [ok |-> TRUE, seq |-> [i \in 1..Cardinality(DOMAIN v.members) |-> PyStr(<<"k">>)]]
      [] OTHER -> [ok |-> FALSE, seq |-> <<>>]

s_error == <<"e", "r", "r", "o", "r">>
s_warning == <<"w", "a", "r", "n", "i", "n", "g">>
s_convention == <<"c", "o", "n", "v", "e", "n", "t", "i", "o", "n">>
s_refactor == <<"r", "e", "f", "a", "c", "t", "o", "r">>
s_fatal == <<"f", "a", "t", "a", "l">>
s_style == <<"s", "t", "y", "l", "e">>

\* The value every error result's lists have, and the three start with.
NoIssues == [bugs |-> <<>>, warnings |-> <<>>, suggestions |-> <<>>]

\* An error result of a tool runner: empty lists and an error string, the
\* string being a format and the text put into it.
ErrorResult(format, arg) ==
    [bugs |-> <<>>, warnings |-> <<>>, suggestions |-> <<>>,
     error |-> [format |-> format, arg |-> arg]]

\* ---------------------------------------------------- pylint normalizer

\* The item the pylint loop builds from one record.
PylintItem(issue) ==
    [line |-> Get(issue, "line", PyInt(0)),
     column |-> Get(issue, "column", PyInt(0)),
     message |-> Get(issue, "message", PyStr(<<>>)),
     type |-> Get(issue, "type", PyStr(<<>>)),
     symbol |-> Get(issue, "symbol", PyStr(<<>>))]

\* PylintBucket with 'refactor' left out of the suggestion types.
PylintBucketNoRefactor(issue) ==
    LET ty == Get(issue, "type", PyNone) IN
    IF ty = PyStr(s_error) THEN "bugs"
    ELSE IF ty = PyStr(s_warning) THEN "warnings"
    ELSE IF ty \in {PyStr(s_convention)} THEN "suggestions"
    ELSE ""

\* One pass of the loop body: the bucket the record goes to, "" for none.
PylintBucket(issue) ==
    LET ty == Get(issue, "type", PyNone) IN
    IF ty = PyStr(s_error) THEN "bugs"
    ELSE IF ty = PyStr(s_warning) THEN "warnings"
    ELSE IF ty \in {PyStr(s_convention), PyStr(s_refactor)} THEN "suggestions"
    ELSE ""

\* The loop over the parsed output, from record i on, acc the lists so far.
\* A record that is no dict has no .get: AttributeError.
RECURSIVE PylintLoop(_, _, _)
PylintLoop(seq, i, acc) ==
    IF i > Len(seq) THEN [ok |-> TRUE, lists |-> acc, exc |-> ""]
    ELSE IF seq[i].t # "object"
    THEN [ok |-> FALSE, lists |-> NoIssues, exc |-> "object has no attribute 'get'"]
    ELSE LET b == PylintBucket(seq[i])
             item == PylintItem(seq[i])
         IN  PylintLoop(seq, i + 1,
                 IF b = "" THEN acc ELSE [acc EXCEPT ![b] = Append(@, item)])

\* json.loads(stdout): stdout is text that is no JSON document, or the
\* document it parses to.
json_loads(stdout) ==
    IF stdout.kind = "json" THEN [ok |-> TRUE, value |-> stdout.doc]
    ELSE [ok |-> FALSE, value |-> PyNone]

\* _run_pylint from the completed process on: the dict it returns.
PylintParse(proc) ==
    IF proc.stdout.kind = "empty"
    THEN ErrorResult("pylint failed: {}", proc.stderr)
    ELSE LET parsed == json_loads(proc.stdout) IN
         IF ~parsed.ok THEN ErrorResult("Failed to parse pylint output", "")
         ELSE LET it == Iterate(parsed.value) IN
              IF ~it.ok THEN ErrorResult("pylint error: {}", "object is not iterable")
              ELSE LET r == PylintLoop(it.seq, 1, NoIssues) IN
                   IF ~r.ok THEN ErrorResult("pylint error: {}", r.exc)
                   ELSE r.lists


\* ---------------------------------------------------- flake8 normalizer

\* The item the flake8 loop builds from the four fields of a line.
Flake8Item(parts) ==
    [line |-> PyInt(ParseInt(parts[1]).value),
     column |-> PyInt(ParseInt(parts[2]).value),
     code |-> PyStr(parts[3]),
     message |-> PyStr(parts[4]),
     type |-> PyStr(s_style)]

\* line.split(':', 3)
Flake8Fields(line) == Split(line, ":", 3)

\* Flake8IsBug testing for an 'E' anywhere in the code.
Flake8IsBugAnywhere(parts) == \E i \in 1..Len(parts[3]) : parts[3][i] = "E"

\* parts[2].startswith('E')
Flake8IsBug(parts) == StartsWith(parts[3], <<"E">>)

\* The loop over the output's lines, from line i on; int() of a field that
\* is no integer raises ValueError.
RECURSIVE Flake8Loop(_, _, _)
Flake8Loop(lines, i, acc) ==
    IF i > Len(lines) THEN [ok |-> TRUE, lists |-> acc, exc |-> ""]
    ELSE LET line == lines[i]
             parts == Flake8Fields(line)
         IN  IF line = <<>> \/ Len(parts) < 4
             THEN Flake8Loop(lines, i + 1, acc)
             ELSE IF ~ParseInt(parts[1]).ok \/ ~ParseInt(parts[2]).ok
             THEN [ok |-> FALSE, lists |-> acc, exc |-> "invalid literal for int()"]
             ELSE Flake8Loop(lines, i + 1,
                      IF Flake8IsBug(parts)
                      THEN [acc EXCEPT !.bugs = Append(@, Flake8Item(parts))]
                      ELSE [acc EXCEPT !.warnings = Append(@, Flake8Item(parts))])

\* result.stdout.strip().split('\n')
Flake8Lines(stdout) == Split(Strip(stdout), "\n", -1)

\* _run_flake8 from the completed process on: the dict it returns (without
\* a 'suggestions' key when it succeeds).
Flake8Parse(proc) ==
    LET r == Flake8Loop(Flake8Lines(proc.stdout), 1, [bugs |-> <<>>, warnings |-> <<>>]) IN
    IF ~r.ok THEN ErrorResult("flake8 error: {}", r.exc)
    ELSE r.lists

\* ---------------------------------------------------- eslint normalizer

\* The item the eslint loop builds from one message.
EslintItem(issue) ==
    [line |-> Get(issue, "line", PyInt(0)),
     column |-> Get(issue, "column", PyInt(0)),
     message |-> Get(issue, "message", PyStr(<<>>)),
     type |-> IF Get(issue, "severity", PyInt(1)) = PyInt(2)
              THEN PyStr(s_error) ELSE PyStr(s_warning),
     symbol |-> Get(issue, "ruleId", PyStr(<<>>))]

\* issue.get('severity') == 2
EslintIsBug(issue) == Get(issue, "severity", PyNone) = PyInt(2)

\* The inner loop, over the messages of one file object.
RECURSIVE EslintMessages(_, _, _)
EslintMessages(seq, i, acc) ==
    IF i > Len(seq) THEN [ok |-> TRUE, lists |-> acc, exc |-> ""]
    ELSE IF seq[i].t # "object"
    THEN [ok |-> FALSE, lists |-> acc, exc |-> "object has no attribute 'get'"]
    ELSE EslintMessages(seq, i + 1,
             IF EslintIsBug(seq[i])
             THEN [acc EXCEPT !.bugs = Append(@, EslintItem(seq[i]))]
             ELSE [acc EXCEPT !.warnings = Append(@, EslintItem(seq[i]))])

\* The outer loop, over the file objects of the parsed output.
RECURSIVE EslintFiles(_, _, _)
EslintFiles(seq, i, acc) ==
    IF i > Len(seq) THEN [ok |-> TRUE, lists |-> acc, exc |-> ""]
    ELSE IF seq[i].t # "object"
    THEN [ok |-> FALSE, lists |-> acc, exc |-> "object has no attribute 'get'"]
    ELSE LET it == Iterate(Get(seq[i], "messages", PyList(<<>>))) IN
         IF ~it.ok THEN [ok |-> FALSE, lists |-> acc, exc |-> "object is not iterable"]
         ELSE LET r == EslintMessages(it.seq, 1, acc) IN
              IF ~r.ok THEN r ELSE EslintFiles(seq, i + 1, r.lists)

\* _analyze_javascript from the completed eslint process on: an error
\* result, or the lists the final return statement reports.
EslintParse(proc) ==
    IF proc.stdout.kind = "empty"
    THEN ErrorResult("ESLint failed: {}", proc.stderr)
    ELSE LET parsed == json_loads(proc.stdout) IN
         IF ~parsed.ok THEN ErrorResult("Failed to parse ESLint output", "")
         ELSE LET it == Iterate(parsed.value) IN
              IF ~it.ok THEN ErrorResult("ESLint error: {}", "object is not iterable")
              ELSE LET r == EslintFiles(it.seq, 1, NoIssues) IN
                   IF ~r.ok THEN ErrorResult("ESLint error: {}", r.exc)
                   ELSE r.lists

\* --------------------------------------------------- heuristic fallback

Keywords ==
    {<<"i", "f">>, <<"f", "o", "r">>, <<"w", "h", "i", "l", "e">>,
     <<"f", "u", "n", "c", "t", "i", "o", "n">>, <<"e", "l", "s", "e">>,
     <<"t", "r", "y">>, <<"c", "a", "t", "c", "h">>,
     <<"f", "i", "n", "a", "l", "l", "y">>}

\* re.search(r'[^;{}]\s*$', s)
EndsOpen(s) ==
    \E i \in 1..Len(s) :
        /\ s[i] \notin {";", "{", "}"}
        /\ \A j \in (i + 1)..Len(s) : s[j] \in Whitespace

\* re.match(r'^\s*(if|for|while|function|else|try|catch|finally)', s)
StartsWithKeyword(s) == \E k \in Keywords : StartsWith(LStrip(s), k)

\* The first rule: a statement that lacks its semicolon.
WantsSemicolon(line) ==
    LET s == Strip(line) IN
    /\ EndsOpen(s) /\ s # <<>>
    /\ ~EndsWith(s, <<"{">>) /\ ~EndsWith(s, <<"}">>)
    /\ ~StartsWithKeyword(s)

\* re.search(r'\bvar\s+', line)
HasVar(line) ==
    \E i \in 1..Len(line) :
        /\ MatchAt(line, <<"v", "a", "r">>, i)
        /\ i = 1 \/ line[i - 1] \notin WordChars
        /\ i + 3 <= Len(line) /\ line[i + 3] \in Whitespace

\* re.search(r'console\.log', line)
HasConsoleLog(line) ==
    \E i \in 1..Len(line) :
        MatchAt(line, <<"c", "o", "n", "s", "o", "l", "e", ".", "l", "o", "g">>, i)

\* re.search(r'==(?!=)', line)
HasLooseEquality(line) ==
    \E i \in 1..Len(line) :
        /\ MatchAt(line, <<"=", "=">>, i)
        /\ ~(i + 2 <= Len(line) /\ line[i + 2] = "=")

\* the first position from i on that holds no whitespace
RECURSIVE SkipSpace(_, _)
SkipSpace(line, i) ==
    IF i <= Len(line) /\ line[i] \in Whitespace THEN SkipSpace(line, i + 1) ELSE i

\* re.search(r'function\s*\(\s*\)', line)
HasAnonymousFunction(line) ==
    \E i \in 1..Len(line) :
        /\ MatchAt(line, <<"f", "u", "n", "c", "t", "i", "o", "n">>, i)
        /\ LET j == SkipSpace(line, i + 8) IN
           /\ j <= Len(line) /\ line[j] = "("
           /\ LET k == SkipSpace(line, j + 1) IN k <= Len(line) /\ line[k] = ")"

msg_semicolon == "Consider adding semicolon at end of statement"
msg_var == "Consider using let or const instead of var"
msg_console == "Remove console.log statements in production code"
msg_equality == "Use strict equality (===) instead of loose equality (==)"
msg_arrow == "Consider using arrow functions for better readability"

HeuristicItem(i, message, type) == [line |-> i, message |-> message, type |-> type]

\* The body of the fallback's loop for line number i: the lists after it.
HeuristicLine(line, i, acc) ==
    LET a1 == IF WantsSemicolon(line)
              THEN [acc EXCEPT !.suggestions = Append(@, HeuristicItem(i, msg_semicolon, "style"))]
              ELSE acc
        a2 == IF HasVar(line)
              THEN [a1 EXCEPT !.suggestions = Append(@, HeuristicItem(i, msg_var, "modern"))]
              ELSE a1
        a3 == IF HasConsoleLog(line)
              THEN [a2 EXCEPT !.warnings = Append(@, HeuristicItem(i, msg_console, "warning"))]
              ELSE a2
        a4 == IF HasLooseEquality(line)
              THEN [a3 EXCEPT !.suggestions = Append(@, HeuristicItem(i, msg_equality, "best_practice"))]
              ELSE a3
    IN  IF HasAnonymousFunction(line)
        THEN [a4 EXCEPT !.suggestions = Append(@, HeuristicItem(i, msg_arrow, "modern"))]
        ELSE a4

RECURSIVE HeuristicLoop(_, _, _)
HeuristicLoop(lines, i, acc) ==
    IF i > Len(lines) THEN acc
    ELSE HeuristicLoop(lines, i + 1, HeuristicLine(lines[i], i, acc))

\* The fallback: the lists of code.split('\n') scanned line by line.
Heuristics(code) == HeuristicLoop(Split(code, "\n", -1), 1, NoIssues)

\* SummaryResult formatting the number of bugs where the warnings go.
SummaryMiscounted(lists) ==
    [bugs |-> lists.bugs, warnings |-> lists.warnings, suggestions |-> lists.suggestions,
     summary |-> <<Len(lists.bugs), Len(lists.bugs), Len(lists.suggestions)>>]

\* The dict the final return statement of either pipeline builds; the
\* summary is the three counts its text is formatted from.
SummaryResult(lists) ==
    [bugs |-> lists.bugs, warnings |-> lists.warnings, suggestions |-> lists.suggestions,
     summary |-> <<Len(lists.bugs), Len(lists.warnings), Len(lists.suggestions)>>]


\* ------------------------------------------------------------ the inputs

s_python == <<"p", "y", "t", "h", "o", "n">>
s_javascript == <<"j", "a", "v", "a", "s", "c", "r", "i", "p", "t">>

\* The language values a call is made with.
Languages ==
    {s_python, <<"P", "y", "t", "h", "o", "n">>, <<"P", "Y", "T", "H", "O", "N">>,
     s_javascript, <<"J", "a", "v", "a", "S", "c", "r", "i", "p", "t">>,
     <<"r", "u", "b", "y">>, <<"j", "s">>, <<"p", "y", "t", "h", "o", "n", "3">>, <<>>}

\* A character no text file can hold: a lone surrogate, which a str decoded
\* from JSON may contain and which f.write cannot encode.
Surrogate == "<U+D800>"

\* The code texts a call is made with.
Codes ==
    {<<"x", " ", "=", "=", " ", "1">>,
     <<"v", "a", "r", " ", "a", "\n", "c", "o", "n", "s", "o", "l", "e", ".", "l", "o", "g",
       "(", "a", ")", ";">>,
     <<"x", " ", "=", " ", Surrogate>>}

Tools == {"pylint", "flake8", "eslint"}

\* What a child process leaves: exit status and stderr text.
Exits == {[returncode |-> 0, stderr |-> <<>>], [returncode |-> 1, stderr |-> <<"boom">>]}

\* The standard output of a tool that prints JSON: nothing, text that is no
\* JSON document, or a document.
EmptyOutput == [kind |-> "empty", doc |-> PyNone]
NotJson == [kind |-> "notjson", doc |-> PyNone]
JsonOutput(doc) == [kind |-> "json", doc |-> doc]

\* All sequences over S of length at most n.
SeqsUpTo(S, n) == UNION {[1..k -> S] : k \in 0..n}

\* pylint records, and an array element that is no record.
PylintRecord(type, line) ==
    PyDict([type |-> PyStr(type), line |-> PyInt(line), column |-> PyInt(0),
            message |-> PyStr(<<"m">>), symbol |-> PyStr(<<"s">>)])

PylintElements ==
    {PylintRecord(s_error, 1), PylintRecord(s_warning, 2), PylintRecord(s_refactor, 3),
     PylintRecord(s_fatal, 4), PyInt(7)}

\* JSON documents that are no array.
OddDocuments == {PyNone, PyDict(<<>>), PyDict([a |-> PyInt(1)]), PyStr(<<>>)}

\* How a child process may end: killed at the timeout, or exited.
TimedOut(empty) ==
    [kind |-> "timeout", returncode |-> 0, stdout |-> empty, stderr |-> <<>>, report |-> <<>>]

Exited(stdouts) ==
    {[kind |-> "exit", returncode |-> e.returncode, stdout |-> o, stderr |-> e.stderr,
      report |-> <<>>] : e \in Exits, o \in stdouts}

PylintOutcomes ==
    {TimedOut(EmptyOutput)} \cup
    Exited({EmptyOutput, NotJson}
           \cup {JsonOutput(d) : d \in OddDocuments}
           \cup {JsonOutput(PyList(es)) : es \in SeqsUpTo(PylintElements, MaxIssues)})

\* str(n) for n >= 0
RECURSIVE IntToText(_)
IntToText(n) ==
    IF n < 10 THEN <<Digits[n + 1]>> ELSE IntToText(n \div 10) \o <<Digits[(n % 10) + 1]>>

\* What flake8 reports: a violation, printed with the format
\* %(row)d:%(col)d:%(code)s:%(text)s, or some other line of text.
Violation(row, col, fcode, text) ==
    [violation |-> TRUE, row |-> row, col |-> col, code |-> fcode, text |-> text]

OtherLine(text) == [violation |-> FALSE, row |-> 0, col |-> 0, code |-> <<>>, text |-> text]

Printed(l) ==
    IF l.violation
    THEN IntToText(l.row) \o <<":">> \o IntToText(l.col) \o <<":">> \o l.code \o <<":">> \o l.text
    ELSE l.text

\* flake8 prints nothing, or its lines, each ended by a newline.
Flake8Output(ls) ==
    IF ls = <<>> THEN <<>> ELSE Join([i \in 1..Len(ls) |-> Printed(ls[i])], "\n") \o <<"\n">>

\* The ways flake8 may exit having reported one of the sequences in reports.
Flake8Exited(reports) ==
    {[kind |-> "exit", returncode |-> e.returncode, stdout |-> Flake8Output(ls),
      stderr |-> e.stderr, report |-> ls] : e \in Exits, ls \in reports}

FlakeLines ==
    {Violation(3, 5, <<"E", "5">>, <<"l", "o", "n", "g">>),
     Violation(1, 2, <<"W", "2">>, <<"w", "s">>),
     OtherLine(<<"o", "o", "p", "s">>),
     OtherLine(<<"a", ":", "b", ":", "E", ":", "z">>)}

Flake8Outcomes == {TimedOut(<<>>)} \cup Flake8Exited(SeqsUpTo(FlakeLines, MaxFlakeLines))

\* eslint messages and per-file objects, and an array element that is none.
EslintMessage(severity, line) ==
    PyDict([severity |-> PyInt(severity), line |-> PyInt(line), column |-> PyInt(0),
            message |-> PyStr(<<"m">>), ruleId |-> PyStr(<<"r">>)])

EslintFileObjects ==
    {PyDict(<<>>),
     PyDict([messages |-> PyList(<<EslintMessage(2, 1)>>)]),
     PyDict([messages |-> PyList(<<EslintMessage(1, 1), EslintMessage(2, 2)>>)]),
     PyDict([messages |-> PyList(<<PyDict(<<>>)>>)]),
     PyDict([messages |-> PyNone]),
     PyDict([messages |-> PyStr(<<>>)]),
     PyInt(7)}

EslintOutcomes ==
    {TimedOut(EmptyOutput)} \cup
    Exited({EmptyOutput, NotJson}
           \cup {JsonOutput(d) : d \in OddDocuments}
           \cup {JsonOutput(PyList(es)) : es \in SeqsUpTo(EslintFileObjects, MaxIssues)})

\* -------------------------------------------------------------- the state

VARIABLES
    pc,         \* where the call is
    code,       \* analyze's argument
    language,   \* analyze's argument
    lang,       \* the local 'language' after lower()
    installed,  \* the tools shutil.which finds
    disk,       \* the temporary files that exist
    made,       \* the temporary files this call created
    temp_file,  \* the local temp_file, None until it is assigned
    running,    \* the child processes that run
    spawned,    \* the child processes started, in order
    log,        \* what became of each tool run, in order
    lists,      \* the locals bugs, warnings, suggestions
    pending,    \* the value a return statement carries through finally
    cleanup_failed,  \* os.unlink raised OSError, which was logged
    result      \* what analyze returned

vars ==
    <<pc, code, language, lang, installed, disk, made, temp_file, running, spawned, log,
      lists, pending, cleanup_failed, result>>

None == "None"

\* No value: nothing returned yet.
Nothing == [nothing |-> TRUE]

\* HasError never seeing the error: the test of the key left out.
HasErrorIgnored(r) == FALSE

\* 'error' in results
HasError(r) == "error" \in DOMAIN r

Init ==
    /\ pc = "analyze"
    /\ code \in Codes
    /\ language \in Languages
    /\ lang = language
    /\ installed \in SUBSET Tools
    /\ disk = {}
    /\ made = {}
    /\ temp_file = None
    /\ running = {}
    /\ spawned = <<>>
    /\ log = <<>>
    /\ lists = NoIssues
    /\ pending = Nothing
    /\ cleanup_failed = FALSE
    /\ result = Nothing


\* ------------------------------------------------------------ analyze()

\* Dispatch comparing the start of the language only.
DispatchByPrefix(l) ==
    IF StartsWith(l, s_python) THEN "py_tempfile"
    ELSE IF StartsWith(l, s_javascript) THEN "js_which"
    ELSE "unsupported"

\* The branch analyze takes for the lowered language.
Dispatch(l) ==
    IF l = s_python THEN "py_tempfile"
    ELSE IF l = s_javascript THEN "js_which"
    ELSE "unsupported"

\* analyze: lower the language and pick the pipeline; any other language
\* returns an error result at once.
analyze ==
    /\ pc = "analyze"
    /\ lang' = Lower(language)
    /\ LET to == Dispatch(Lower(language)) IN
       IF to = "unsupported"
       THEN /\ pc' = "done"
            /\ result' = ErrorResult("Language \"{}\" is not supported. Supported languages: python, javascript",
                                     Lower(language))
       ELSE /\ pc' = to
            /\ UNCHANGED result
    /\ UNCHANGED <<cleanup_failed, code, language, installed, disk, made, temp_file, running, spawned, log,
                   lists, pending>>

\* f.write(code) encodes the text: a lone surrogate raises UnicodeEncodeError.
Encodable(text) == \A i \in 1..Len(text) : text[i] # Surrogate

\* The with-block that creates the temporary file, writes the code and
\* assigns temp_file. io is what the file system does: "ok", or an OSError
\* when the file is created, written, or flushed and closed.
\* Yields the files on disk, temp_file and the exception raised ("" for none).
CreateTemp(name, io) ==
    IF io = "create_fails"
    THEN [disk |-> disk, made |-> made, temp_file |-> None, exc |-> <<"OSError">>]
    ELSE IF ~Encodable(code) \/ io = "write_fails"
    THEN [disk |-> disk \cup {name}, made |-> made \cup {name}, temp_file |-> None,
          exc |-> IF ~Encodable(code) THEN <<"UnicodeEncodeError">> ELSE <<"OSError">>]
    ELSE IF io = "close_fails"
    THEN [disk |-> disk \cup {name}, made |-> made \cup {name}, temp_file |-> name,
          exc |-> <<"OSError">>]
    ELSE [disk |-> disk \cup {name}, made |-> made \cup {name}, temp_file |-> name, exc |-> <<>>]

FileSystemOutcomes == {"ok", "create_fails", "write_fails", "close_fails"}

\* The finally clause: unlink temp_file when it is set and exists; an
\* OSError of unlink is logged and the file stays.
Unlink(files, name, unlinked) ==
    IF name # None /\ name \in files /\ unlinked THEN files \ {name} ELSE files

\* ReturnValue handing back the lists gathered so far with the error.
ReturnValuePartial(carried, ls) ==
    IF carried # Nothing
    THEN [carried EXCEPT !.bugs = ls.bugs, !.warnings = ls.warnings,
                         !.suggestions = ls.suggestions]
    ELSE SummaryResult(ls)

\* What the call returns once finally has run: the value of the return
\* statement that was reached, else the final return's summary dict.
ReturnValue(carried, ls) == IF carried # Nothing THEN carried ELSE SummaryResult(ls)

\* One entry of the log of tool runs.
LogEntry(tool, out, returned) ==
    [tool |-> tool, kind |-> out.kind, returncode |-> out.returncode, stdout |-> out.stdout,
     stderr |-> out.stderr, report |-> out.report, returned |-> returned]

\* A tool that did not run: not found, or not spawned.
NotRun(kind, empty) ==
    [kind |-> kind, returncode |-> 0, stdout |-> empty, stderr |-> <<>>, report |-> <<>>]

\* ------------------------------------------------------ _analyze_python

\* Lines 43-47: create the temporary file; an exception goes to the except
\* clause, which returns an error result.
PyCreateTemp ==
    /\ pc = "py_tempfile"
    /\ \E io \in FileSystemOutcomes :
          LET c == CreateTemp("tmp.py", io) IN
          /\ disk' = c.disk
          /\ made' = c.made
          /\ temp_file' = c.temp_file
          /\ IF c.exc # <<>>
             THEN /\ pending' = ErrorResult("Python analysis failed: {}", c.exc)
                  /\ pc' = "py_finally"
             ELSE /\ pc' = "py_pylint"
                  /\ UNCHANGED pending
    /\ UNCHANGED <<cleanup_failed, code, language, lang, installed, running, spawned, log, lists, result>>

\* _run_pylint up to subprocess.run: the tool is missing, or cannot be
\* spawned (an exception of subprocess.run), or runs.
RunPylintStart ==
    /\ pc = "py_pylint"
    /\ IF "pylint" \notin installed
       THEN LET r == ErrorResult("pylint not installed. Install using \"pip install pylint\".", <<>>) IN
            /\ pending' = r
            /\ log' = Append(log, LogEntry("pylint", NotRun("missing", EmptyOutput), r))
            /\ pc' = "py_finally"
            /\ UNCHANGED <<running, spawned>>
       ELSE \E started \in BOOLEAN :
            IF started
            THEN /\ running' = running \cup {"pylint"}
                 /\ spawned' = Append(spawned, "pylint")
                 /\ pc' = "py_pylint_wait"
                 /\ UNCHANGED <<pending, log>>
            ELSE LET r == ErrorResult("pylint error: {}", <<"OSError">>) IN
                 /\ pending' = r
                 /\ log' = Append(log, LogEntry("pylint", NotRun("spawn_error", EmptyOutput), r))
                 /\ pc' = "py_finally"
                 /\ UNCHANGED <<running, spawned>>
    /\ UNCHANGED <<cleanup_failed, code, language, lang, installed, disk, made, temp_file, lists, result>>

\* What _run_pylint returns for the way the child ended.
RunPylintResult(out) ==
    IF out.kind = "timeout" THEN ErrorResult("pylint analysis timed out", <<>>)
    ELSE PylintParse(out)

\* bugs.extend, warnings.extend, suggestions.extend with pylint's lists
ExtendAll(ls, r) ==
    [bugs |-> ls.bugs \o r.bugs, warnings |-> ls.warnings \o r.warnings,
     suggestions |-> ls.suggestions \o r.suggestions]

\* subprocess.run returns or times out (the child is killed); lines 51-55
\* return pylint's error or take its lists.
RunPylintDone(outs) ==
    /\ pc = "py_pylint_wait"
    /\ \E out \in outs :
          LET r == RunPylintResult(out) IN
          /\ running' = running \ {"pylint"}
          /\ log' = Append(log, LogEntry("pylint", out, r))
          /\ IF HasError(r)
             THEN /\ pending' = r
                  /\ pc' = "py_finally"
                  /\ UNCHANGED lists
             ELSE /\ lists' = ExtendAll(lists, r)
                  /\ pc' = "py_flake8"
                  /\ UNCHANGED pending
    /\ UNCHANGED <<cleanup_failed, code, language, lang, installed, disk, made, temp_file, spawned, result>>

\* _run_flake8 up to subprocess.run.
RunFlake8Start ==
    /\ pc = "py_flake8"
    /\ IF "flake8" \notin installed
       THEN LET r == ErrorResult("flake8 not installed. Install using \"pip install flake8\".", <<>>) IN
            /\ pending' = r
            /\ log' = Append(log, LogEntry("flake8", NotRun("missing", <<>>), r))
            /\ pc' = "py_finally"
            /\ UNCHANGED <<running, spawned>>
       ELSE \E started \in BOOLEAN :
            IF started
            THEN /\ running' = running \cup {"flake8"}
                 /\ spawned' = Append(spawned, "flake8")
                 /\ pc' = "py_flake8_wait"
                 /\ UNCHANGED <<pending, log>>
            ELSE LET r == ErrorResult("flake8 error: {}", <<"OSError">>) IN
                 /\ pending' = r
                 /\ log' = Append(log, LogEntry("flake8", NotRun("spawn_error", <<>>), r))
                 /\ pc' = "py_finally"
                 /\ UNCHANGED <<running, spawned>>
    /\ UNCHANGED <<cleanup_failed, code, language, lang, installed, disk, made, temp_file, lists, result>>

\* What _run_flake8 returns for the way the child ended.
RunFlake8Result(out) ==
    IF out.kind = "timeout" THEN ErrorResult("flake8 analysis timed out", <<>>)
    ELSE Flake8Parse(out)

\* bugs.extend, warnings.extend with flake8's lists
ExtendTwo(ls, r) ==
    [bugs |-> ls.bugs \o r.bugs, warnings |-> ls.warnings \o r.warnings,
     suggestions |-> ls.suggestions]

\* subprocess.run returns or times out; lines 59-62 return flake8's error
\* or take its lists and leave the try block.
RunFlake8Done(outs) ==
    /\ pc = "py_flake8_wait"
    /\ \E out \in outs :
          LET r == RunFlake8Result(out) IN
          /\ running' = running \ {"flake8"}
          /\ log' = Append(log, LogEntry("flake8", out, r))
          /\ IF HasError(r)
             THEN /\ pending' = r
                  /\ UNCHANGED lists
             ELSE /\ lists' = ExtendTwo(lists, r)
                  /\ UNCHANGED pending
          /\ pc' = "py_finally"
    /\ UNCHANGED <<cleanup_failed, code, language, lang, installed, disk, made, temp_file, spawned, result>>

\* Lines 72-84: the finally clause, then the return.
PyFinally ==
    /\ pc = "py_finally"
    /\ \E unlinked \in BOOLEAN :
          /\ disk' = Unlink(disk, temp_file, unlinked)
          /\ cleanup_failed' = (temp_file # None /\ temp_file \in disk /\ ~unlinked)
    /\ result' = ReturnValue(pending, lists)
    /\ pc' = "done"
    /\ UNCHANGED <<code, language, lang, installed, made, temp_file, running, spawned, log,
                   lists, pending>>

\* -------------------------------------------------- _analyze_javascript

\* Line 182: with eslint on the path go on to run it; without, the whole
\* fallback scan and the final return.
JsWhich ==
    /\ pc = "js_which"
    /\ IF "eslint" \in installed
       THEN /\ pc' = "js_tempfile"
            /\ UNCHANGED <<lists, result>>
       ELSE /\ lists' = Heuristics(code)
            /\ result' = SummaryResult(Heuristics(code))
            /\ pc' = "done"
    /\ UNCHANGED <<cleanup_failed, code, language, lang, installed, disk, made, temp_file, running, spawned,
                   log, pending>>

\* Lines 183-187: create the temporary file.
JsCreateTemp ==
    /\ pc = "js_tempfile"
    /\ \E io \in FileSystemOutcomes :
          LET c == CreateTemp("tmp.js", io) IN
          /\ disk' = c.disk
          /\ made' = c.made
          /\ temp_file' = c.temp_file
          /\ IF c.exc # <<>>
             THEN /\ pending' = ErrorResult("ESLint error: {}", c.exc)
                  /\ pc' = "js_finally"
             ELSE /\ pc' = "js_eslint"
                  /\ UNCHANGED pending
    /\ UNCHANGED <<cleanup_failed, code, language, lang, installed, running, spawned, log, lists, result>>

\* Line 190: subprocess.run spawns eslint, or raises.
EslintStart ==
    /\ pc = "js_eslint"
    /\ \E started \in BOOLEAN :
          IF started
          THEN /\ running' = running \cup {"eslint"}
               /\ spawned' = Append(spawned, "eslint")
               /\ pc' = "js_eslint_wait"
               /\ UNCHANGED <<pending, log>>
          ELSE LET r == ErrorResult("ESLint error: {}", <<"OSError">>) IN
               /\ pending' = r
               /\ log' = Append(log, LogEntry("eslint", NotRun("spawn_error", EmptyOutput), r))
               /\ pc' = "js_finally"
               /\ UNCHANGED <<running, spawned>>
    /\ UNCHANGED <<cleanup_failed, code, language, lang, installed, disk, made, temp_file, lists, result>>

\* What the try block makes of the way eslint ended.
EslintResult(out) ==
    IF out.kind = "timeout" THEN ErrorResult("ESLint analysis timed out", <<>>)
    ELSE EslintParse(out)

\* subprocess.run returns or times out; lines 196-222.
EslintDone(outs) ==
    /\ pc = "js_eslint_wait"
    /\ \E out \in outs :
          LET r == EslintResult(out) IN
          /\ running' = running \ {"eslint"}
          /\ log' = Append(log, LogEntry("eslint", out, r))
          /\ IF HasError(r)
             THEN /\ pending' = r
                  /\ UNCHANGED lists
             ELSE /\ lists' = r
                  /\ UNCHANGED pending
          /\ pc' = "js_finally"
    /\ UNCHANGED <<cleanup_failed, code, language, lang, installed, disk, made, temp_file, spawned, result>>

\* Lines 223-228 and 265-270: the finally clause, then the return.
JsFinally ==
    /\ pc = "js_finally"
    /\ \E unlinked \in BOOLEAN :
          /\ disk' = Unlink(disk, temp_file, unlinked)
          /\ cleanup_failed' = (temp_file # None /\ temp_file \in disk /\ ~unlinked)
    /\ result' = ReturnValue(pending, lists)
    /\ pc' = "done"
    /\ UNCHANGED <<code, language, lang, installed, made, temp_file, running, spawned, log,
                   lists, pending>>

Next ==
    \/ analyze
    \/ PyCreateTemp
    \/ RunPylintStart
    \/ RunPylintDone(PylintOutcomes)
    \/ RunFlake8Start
    \/ RunFlake8Done(Flake8Outcomes)
    \/ PyFinally
    \/ JsWhich
    \/ JsCreateTemp
    \/ EslintStart
    \/ EslintDone(EslintOutcomes)
    \/ JsFinally

Spec == Init /\ [][Next]_vars
\* --------------------------------------------- the normalizers on their own

\* The state of a Python call that waits for the child `tool`, pylint
\* having returned `entries` before.
WaitingFor(tool, at, entries) ==
    /\ pc = at
    /\ code = <<"x", " ", "=", "=", " ", "1">>
    /\ language = s_python
    /\ lang = s_python
    /\ installed \in {{"pylint", "flake8"}, Tools}
    /\ disk = {"tmp.py"}
    /\ made = {"tmp.py"}
    /\ temp_file = "tmp.py"
    /\ running = {tool}
    /\ spawned = IF tool = "pylint" THEN <<"pylint">> ELSE <<"pylint", "flake8">>
    /\ log = entries
    /\ lists = NoIssues
    /\ pending = Nothing
    /\ cleanup_failed = FALSE
    /\ result = Nothing

\* pylint records of every type, two of one type, and one without a type.
PylintRecords ==
    {PylintRecord(s_error, 1), PylintRecord(s_error, 2), PylintRecord(s_warning, 3),
     PylintRecord(s_convention, 4), PylintRecord(s_refactor, 5), PylintRecord(s_fatal, 6),
     PyDict([line |-> PyInt(7), column |-> PyInt(0), message |-> PyStr(<<"m">>),
             symbol |-> PyStr(<<"s">>)])}

PylintRecordOutcomes ==
    Exited({JsonOutput(PyList(rs)) : rs \in SeqsUpTo(PylintRecords, MaxRecords)})

\* flake8 finds nothing.
Flake8Quiet == Flake8Exited({<<>>})

InitPylint == WaitingFor("pylint", "py_pylint_wait", <<>>)

NextPylint ==
    \/ RunPylintDone(PylintRecordOutcomes)
    \/ RunFlake8Start
    \/ RunFlake8Done(Flake8Quiet)
    \/ PyFinally

\* _run_pylint on arrays of records, in a Python call.
SpecPylint == InitPylint /\ [][NextPylint]_vars

\* pylint found nothing: the output [].
PylintClean ==
    [kind |-> "exit", returncode |-> 0, stdout |-> JsonOutput(PyList(<<>>)), stderr |-> <<>>,
     report |-> <<>>]

\* Lines flake8 may print: violations, and lines of other forms.
ReportLines ==
    {Violation(3, 5, <<"E", "5">>, <<"l", "o", "n", "g">>),
     Violation(12, 0, <<"W", "2">>, <<"a", ":", "b">>),
     Violation(1, 2, <<"C", "E">>, <<"t", " ">>),
     Violation(4, 1, <<"F", "4">>, <<>>),
     OtherLine(<<"o", "o", "p", "s">>),
     OtherLine(<<"3", ":", "5", ":", "E">>),
     OtherLine(<<" ">>),
     OtherLine(<<"a", ":", "b", ":", "E", ":", "z">>)}

Flake8ReportOutcomes == Flake8Exited(SeqsUpTo(ReportLines, MaxOutLines))

InitFlake8 ==
    WaitingFor("flake8", "py_flake8_wait",
               <<LogEntry("pylint", PylintClean, RunPylintResult(PylintClean))>>)

NextFlake8 ==
    \/ RunFlake8Done(Flake8ReportOutcomes)
    \/ PyFinally

\* _run_flake8 on outputs of several lines, in a Python call.
SpecFlake8 == InitFlake8 /\ [][NextFlake8]_vars

\* Lines of JavaScript over the characters of the equality operators.
EqualityAlphabet == {"=", "!", "a", " "}

JsLines ==
    SeqsUpTo(EqualityAlphabet, MaxLineLen)
    \cup {<<"i", "f", " ", "(", "a", " ", "=", "=", "=", " ", "b", ")", " ", "{">>,
          <<"a", " ", "!", "=", "=", " ", "b", ";">>,
          <<"v", "a", "r", " ", "x", " ", "=", " ", "a", " ", "=", "=", " ", "b">>,
          <<"f", "u", "n", "c", "t", "i", "o", "n", " ", "(", ")", " ", "{">>,
          <<"c", "o", "n", "s", "o", "l", "e", ".", "l", "o", "g", "(", "a", ")">>,
          <<"a", " ", "=", "=", " ", "b", "\n", "a", " ", "!", "=", " ", "b">>}

InitHeuristic ==
    /\ pc = "analyze"
    /\ code \in JsLines
    /\ language \in {s_javascript, <<"J", "a", "v", "a", "S", "c", "r", "i", "p", "t">>}
    /\ lang = language
    /\ installed \in {{}, {"pylint", "flake8"}}
    /\ disk = {}
    /\ made = {}
    /\ temp_file = None
    /\ running = {}
    /\ spawned = <<>>
    /\ log = <<>>
    /\ lists = NoIssues
    /\ pending = Nothing
    /\ cleanup_failed = FALSE
    /\ result = Nothing

NextHeuristic ==
    \/ analyze
    \/ JsWhich

\* The heuristic fallback: JavaScript calls without eslint.
SpecHeuristic == InitHeuristic /\ [][NextHeuristic]_vars

\* ------------------------------------------------------------ properties

\* The three lists of a returned dict are empty.
ListsEmpty(r) == Len(r.bugs) = 0 /\ Len(r.warnings) = 0 /\ Len(r.suggestions) = 0

\* C1: when analyze returns, no temporary file the call created exists,
\* whatever the exit path (success, tool error, timeout, or an exception at
\* any step after the file was created, the write of the code included);
\* a file the operating system refused to unlink is not counted.
C1_TempFileRemoved == pc = "done" /\ ~cleanup_failed => made \cap disk = {}

\* The C2 case: pylint exited, returned no error and found issues, and then
\* flake8 failed (missing, not spawned, timed out, or an exception).
C2_Case ==
    /\ pc = "done"
    /\ Len(log) = 2
    /\ log[1].tool = "pylint" /\ log[1].kind = "exit" /\ "error" \notin DOMAIN log[1].returned
    /\ Len(log[1].returned.bugs) + Len(log[1].returned.warnings)
           + Len(log[1].returned.suggestions) > 0
    /\ log[2].tool = "flake8"
    /\ \/ log[2].kind \in {"missing", "spawn_error", "timeout"}
       \/ "error" \in DOMAIN log[2].returned

\* The error string flake8's failure is reported with.
C2_Flake8Format(kind) ==
    CASE kind = "missing" -> "flake8 not installed. Install using \"pip install flake8\"."
      [] kind = "timeout" -> "flake8 analysis timed out"
      [] OTHER -> "flake8 error: {}"

\* C2: when pylint found issues and flake8 then fails, analyze returns
\* flake8's error string and empty bugs, warnings and suggestions: none of
\* pylint's issues are returned.
C2_PartialResultsDiscarded ==
    C2_Case =>
        /\ "error" \in DOMAIN result
        /\ "summary" \notin DOMAIN result
        /\ result.error.format = C2_Flake8Format(log[2].kind)
        /\ ListsEmpty(result)

C2_Witness ==
    /\ C2_Case
    /\ log[2].kind = "timeout"
    /\ Len(log[1].returned.bugs) > 0
    /\ "error" \in DOMAIN result

\* The child exited with a non-zero status and printed nothing.
C3_FailedSilently(e) ==
    /\ e.kind = "exit"
    /\ e.returncode # 0
    /\ IF e.tool = "flake8" THEN Len(e.stdout) = 0 ELSE e.stdout.kind = "empty"

\* C3: for pylint, flake8 and eslint alike, a child that exits non-zero with
\* empty standard output makes analyze return an error result carrying the
\* child's stderr text, never a result with a summary.
C3_NonZeroEmptyIsError ==
    pc = "done" =>
        \A i \in DOMAIN log :
            C3_FailedSilently(log[i]) =>
                /\ "error" \in DOMAIN result
                /\ "summary" \notin DOMAIN result
                /\ result.error.arg = log[i].stderr

\* A parsed document that is not an array of objects.
C4_NotRecords(doc) == doc.t # "array" \/ \E i \in DOMAIN doc.elems : doc.elems[i].t # "object"

\* A parsed eslint document that is not an array of per-file objects whose
\* messages, where given, are an array of objects.
C4_NotFiles(doc) ==
    \/ C4_NotRecords(doc)
    \/ \E i \in DOMAIN doc.elems :
          /\ "messages" \in DOMAIN doc.elems[i].members
          /\ C4_NotRecords(doc.elems[i].members.messages)

\* The tool printed something that cannot be parsed.
C4_Unparseable(e) ==
    /\ e.tool \in {"pylint", "eslint"}
    /\ e.kind = "exit"
    /\ \/ e.stdout.kind = "notjson"
       \/ /\ e.stdout.kind = "json"
          /\ IF e.tool = "pylint" THEN C4_NotRecords(e.stdout.doc) ELSE C4_NotFiles(e.stdout.doc)

\* C4: output of pylint or eslint that is no JSON, or JSON of the wrong
\* shape, makes the whole analyze call return an error result, never a
\* successful result with empty or partial lists.
C4_UnparseableIsError ==
    pc = "done" =>
        \A i \in DOMAIN log :
            C4_Unparseable(log[i]) => "error" \in DOMAIN result /\ "summary" \notin DOMAIN result

\* The spellings of the two supported languages among the inputs.
C6_Supported ==
    {<<"p", "y", "t", "h", "o", "n">>, <<"P", "y", "t", "h", "o", "n">>,
     <<"P", "Y", "T", "H", "O", "N">>, <<"j", "a", "v", "a", "s", "c", "r", "i", "p", "t">>,
     <<"J", "a", "v", "a", "S", "c", "r", "i", "p", "t">>}

\* A pylint entry of the log after which flake8 may be started.
C5_PylintSucceeded(e) == e.tool = "pylint" /\ e.kind = "exit" /\ "error" \notin DOMAIN e.returned

\* C5: a call starts at most two children and never has two running at
\* once: pylint then flake8, flake8 only after pylint completed without
\* error, or eslint alone, and none when eslint is unavailable or the
\* language is unsupported; no tool is started twice.
C5_SequentialSpawns ==
    /\ Cardinality(running) <= 1
    /\ Len(spawned) <= 2
    /\ \A i, j \in DOMAIN spawned : i # j => spawned[i] # spawned[j]
    /\ IF language \in {<<"p", "y", "t", "h", "o", "n">>, <<"P", "y", "t", "h", "o", "n">>,
                        <<"P", "Y", "T", "H", "O", "N">>}
       THEN /\ spawned \in {<<>>, <<"pylint">>, <<"pylint", "flake8">>}
            /\ Len(spawned) = 2 =>
                  /\ "pylint" \notin running
                  /\ Len(log) >= 1 /\ C5_PylintSucceeded(log[1])
            /\ \A i \in DOMAIN log :
                  log[i].tool = "pylint" /\ ~C5_PylintSucceeded(log[i]) => Len(spawned) <= 1
       ELSE IF language \in C6_Supported
       THEN /\ spawned \in {<<>>, <<"eslint">>}
            /\ "eslint" \notin installed => spawned = <<>>
       ELSE spawned = <<>>

C5_Witness ==
    /\ pc = "done"
    /\ spawned = <<"pylint", "flake8">>
    /\ Len(log) = 2 /\ log[2].kind = "exit"

\* C6: for a language that is neither python nor javascript in any
\* spelling of case, analyze returns an error string and empty lists, and
\* has created no temporary file and started no child process.
C6_UnsupportedLanguage ==
    pc = "done" /\ language \notin C6_Supported =>
        /\ "error" \in DOMAIN result
        /\ "summary" \notin DOMAIN result
        /\ ListsEmpty(result)
        /\ made = {} /\ disk = {}
        /\ spawned = <<>> /\ running = {} /\ log = <<>>

C6_Witness ==
    /\ pc = "done"
    /\ language = <<"r", "u", "b", "y">>
    /\ code = <<"x", " ", "=", "=", " ", "1">>
    /\ "error" \in DOMAIN result

\* C10: every returned result has exactly one of the keys error and
\* summary; with error the three lists are empty; with summary its three
\* counts are the lengths of the three lists.
C10_ResultShape ==
    pc = "done" =>
        /\ {"bugs", "warnings", "suggestions"} \subseteq DOMAIN result
        /\ ("error" \in DOMAIN result) # ("summary" \in DOMAIN result)
        /\ "error" \in DOMAIN result => ListsEmpty(result)
        /\ "summary" \in DOMAIN result =>
              result.summary = <<Len(result.bugs), Len(result.warnings), Len(result.suggestions)>>

C10_Witness ==
    /\ pc = "done"
    /\ "summary" \in DOMAIN result
    /\ Len(result.bugs) = 2
    /\ Len(result.suggestions) = 0
    /\ Len(log) = 2

\* The records of pylint's output array.
C7_Records == log[1].stdout.doc.elems

\* The records whose type is one of types, in the order of the output.
C7_OfType(types) ==
    SelectSeq(C7_Records,
              LAMBDA r : "type" \in DOMAIN r.members /\ r.members.type \in {PyStr(t) : t \in types})

\* The items reported for records that have all five keys.
C7_Items(recs) ==
    [i \in 1..Len(recs) |->
        [line |-> recs[i].members.line, column |-> recs[i].members.column,
         message |-> recs[i].members.message, type |-> recs[i].members.type,
         symbol |-> recs[i].members.symbol]]

\* C7: of a pylint output array, the records of type error are the bugs,
\* those of type warning the warnings, those of type convention or refactor
\* the suggestions, each in the order of the output; a record of any other
\* type or of none is in no list, and no record is in two.
C7_PylintBuckets ==
    Len(log) >= 1 /\ log[1].tool = "pylint" /\ log[1].kind = "exit" =>
        /\ "error" \notin DOMAIN log[1].returned
        /\ log[1].returned.bugs = C7_Items(C7_OfType({s_error}))
        /\ log[1].returned.warnings = C7_Items(C7_OfType({s_warning}))
        /\ log[1].returned.suggestions = C7_Items(C7_OfType({s_convention, s_refactor}))
        /\ lists = log[1].returned
        /\ pc = "done" /\ "summary" \in DOMAIN result =>
              /\ result.bugs = lists.bugs
              /\ result.warnings = lists.warnings
              /\ result.suggestions = lists.suggestions

C7_Witness ==
    /\ pc = "done"
    /\ "summary" \in DOMAIN result
    /\ C7_Records = <<PylintRecord(s_error, 2), PylintRecord(s_fatal, 6), PylintRecord(s_error, 1)>>
    /\ Len(result.bugs) = 2
    /\ result.bugs[1].line = PyInt(2)

\* What flake8 reported.
C8_Report == log[2].report

\* A line of fewer than 4 colon-delimited fields.
C8_Short(l) == ~l.violation /\ Cardinality({i \in DOMAIN l.text : l.text[i] = ":"}) < 3

\* The violations whose code begins with E (bug = TRUE), or does not.
C8_Violations(bug) ==
    SelectSeq(C8_Report, LAMBDA l : l.violation /\ ((l.code # <<>> /\ Head(l.code) = "E") <=> bug))

\* Row, column and code, of a reported violation and of a returned item.
C8_Reported(ls) == [i \in 1..Len(ls) |-> <<ls[i].row, ls[i].col, ls[i].code>>]

C8_Returned(items) ==
    [i \in 1..Len(items) |-> <<items[i].line.n, items[i].column.n, items[i].code.s>>]

\* C8: of a flake8 output, every line row:col:code:text yields exactly one
\* issue with that row as line and that column, among the bugs when the
\* code begins with E and among the warnings otherwise, never among the
\* suggestions; every line of fewer than 4 fields yields no issue and no
\* error.
C8_Flake8Lines ==
    /\ Len(log) = 2 /\ log[2].tool = "flake8" /\ log[2].kind = "exit"
    /\ \A i \in DOMAIN C8_Report : C8_Report[i].violation \/ C8_Short(C8_Report[i])
    =>
        /\ "error" \notin DOMAIN log[2].returned
        /\ C8_Returned(log[2].returned.bugs) = C8_Reported(C8_Violations(TRUE))
        /\ C8_Returned(log[2].returned.warnings) = C8_Reported(C8_Violations(FALSE))
        /\ "suggestions" \notin DOMAIN log[2].returned
        /\ pc = "done" =>
              /\ "summary" \in DOMAIN result
              /\ C8_Returned(result.bugs) = C8_Reported(C8_Violations(TRUE))
              /\ C8_Returned(result.warnings) = C8_Reported(C8_Violations(FALSE))
              /\ Len(result.suggestions) = 0

C8_Witness ==
    /\ pc = "done"
    /\ Len(log) = 2
    /\ C8_Report = <<OtherLine(<<"3", ":", "5", ":", "E">>),
                     Violation(12, 0, <<"W", "2">>, <<"a", ":", "b">>),
                     Violation(3, 5, <<"E", "5">>, <<"l", "o", "n", "g">>)>>
    /\ Len(result.bugs) = 1 /\ result.bugs[1].line = PyInt(3) /\ result.bugs[1].column = PyInt(5)
    /\ Len(result.warnings) = 1

\* The line holds a == that is part of no === and no !==.
C9_Loose(line) ==
    \E i \in 1..Len(line) :
        /\ MatchAt(line, <<"=", "=">>, i)
        /\ ~(i > 1 /\ line[i - 1] \in {"=", "!"})
        /\ ~(i + 2 <= Len(line) /\ line[i + 2] = "=")

\* The strict-equality suggestion was made for line number n.
C9_Flagged(n) ==
    \E k \in DOMAIN result.suggestions :
        result.suggestions[k].line = n /\ result.suggestions[k].message = msg_equality

\* C9: without eslint, a line of JavaScript gets the strict-equality
\* suggestion exactly when it holds a == that is part of no === and no !==.
C9_LooseEqualityOnly ==
    pc = "done" /\ "eslint" \notin installed =>
        \A n \in 1..Len(Split(code, "\n", -1)) :
            C9_Flagged(n) <=> C9_Loose(Split(code, "\n", -1)[n])

====
